---------------------------- MODULE Spec2Model ----------------------------
(***************************************************************************)
(* A model of the text2sql-system repository: the Text-to-SQL conversion   *)
(* pipeline (text_to_sql.py), the storage gate (database.py) and the       *)
(* lazily constructed converter of the web layer (app.py).                 *)
(*                                                                         *)
(* Text is a sequence of characters.  An ASCII character is the            *)
(* one-character string itself; a CJK character is its code point          *)
(* ("u5F20" is the one character U+5F20), which has no case and is no      *)
(* whitespace, as in Python.                                               *)
(***************************************************************************)
EXTENDS Integers, Sequences, FiniteSets, TLC

(***************************************************************************)
(* Text primitives (Python str)                                            *)
(***************************************************************************)

\* an ASCII literal as a sequence of one-character strings
Chars(s) == [i \in 1..Len(s) |-> SubSeq(s, i, i)]

LowerAlpha == Chars("abcdefghijklmnopqrstuvwxyz")
UpperAlpha == Chars("ABCDEFGHIJKLMNOPQRSTUVWXYZ")
Digits == {"0", "1", "2", "3", "4", "5", "6", "7", "8", "9"}
Whitespace == {" ", "\n", "\t"}

UpperChar(c) ==
    IF \E i \in 1..Len(LowerAlpha) : LowerAlpha[i] = c
    THEN UpperAlpha[CHOOSE i \in 1..Len(LowerAlpha) : LowerAlpha[i] = c]
    ELSE c

LowerChar(c) ==
    IF \E i \in 1..Len(UpperAlpha) : UpperAlpha[i] = c
    THEN LowerAlpha[CHOOSE i \in 1..Len(UpperAlpha) : UpperAlpha[i] = c]
    ELSE c

\* str.upper() and str.lower()
Upper(s) == [i \in 1..Len(s) |-> UpperChar(s[i])]
Lower(s) == [i \in 1..Len(s) |-> LowerChar(s[i])]

\* s[i:].startswith(k), i counted from 1
StartsAt(s, k, i) ==
    /\ i >= 1
    /\ i + Len(k) - 1 <= Len(s)
    /\ \A j \in 1..Len(k) : s[i + j - 1] = k[j]

\* k in s
Contains(s, k) == \E i \in 1..(Len(s) - Len(k) + 1) : StartsAt(s, k, i)

\* s.endswith(k)
EndsWith(s, k) == Len(s) >= Len(k) /\ StartsAt(s, k, Len(s) - Len(k) + 1)

\* s.strip()
Strip(s) ==
    LET keep == {i \in 1..Len(s) : s[i] \notin Whitespace}
    IN  IF keep = {} THEN <<>>
        ELSE SubSeq(s, CHOOSE i \in keep : \A j \in keep : i <= j,
                       CHOOSE i \in keep : \A j \in keep : i >= j)

\* s.rstrip(';')
RStripSemi(s) ==
    LET keep == {i \in 1..Len(s) : s[i] /= ";"}
    IN  IF keep = {} THEN <<>>
        ELSE SubSeq(s, 1, CHOOSE i \in keep : \A j \in keep : i >= j)

\* ', '.join(parts) and its like
RECURSIVE Join(_, _)
Join(parts, sep) ==
    IF Len(parts) = 0 THEN <<>>
    ELSE IF Len(parts) = 1 THEN parts[1]
    ELSE parts[1] \o sep \o Join(Tail(parts), sep)

\* str(n) of a natural number
RECURSIVE IntToStr(_)
IntToStr(n) ==
    LET d == Chars("0123456789")[(n % 10) + 1]
    IN  IF n < 10 THEN <<d>> ELSE IntToStr(n \div 10) \o <<d>>

\* s.replace(old, new), old a single character
ReplaceChar(s, old, new) ==
    LET RECURSIVE R(_)
        R(i) == IF i > Len(s) THEN <<>>
                ELSE (IF s[i] = old THEN new ELSE <<s[i]>>) \o R(i + 1)
    IN  R(1)

\* re.sub(r'\s+', ' ', s)
CollapseWs(s) ==
    LET RECURSIVE R(_)
        R(i) == IF i > Len(s) THEN <<>>
                ELSE IF s[i] \in Whitespace
                     THEN (IF i > 1 /\ s[i - 1] \in Whitespace THEN <<>> ELSE <<" ">>)
                          \o R(i + 1)
                     ELSE <<s[i]>> \o R(i + 1)
    IN  R(1)

(***************************************************************************)
(* Literals of the source.  A CJK character is written "uXXXX", its code   *)
(* point; the comment gives the characters.                                *)
(***************************************************************************)
YongHu == <<"u7528", "u6237">>      \* 用户
HuiYuan == <<"u4F1A", "u5458">>     \* 会员
KeHu == <<"u5BA2", "u6237">>        \* 客户
ShangPin == <<"u5546", "u54C1">>    \* 商品
ChanPin == <<"u4EA7", "u54C1">>     \* 产品
JiaGe == <<"u4EF7", "u683C">>       \* 价格
KuCun == <<"u5E93", "u5B58">>       \* 库存
DingDan == <<"u8BA2", "u5355">>     \* 订单
GouMai == <<"u8D2D", "u4E70">>      \* 购买
JiaoYi == <<"u4EA4", "u6613">>      \* 交易
TongJi == <<"u7EDF", "u8BA1">>      \* 统计
ZongShu == <<"u603B", "u6570">>     \* 总数
PingJun == <<"u5E73", "u5747">>     \* 平均
ZuiDuo == <<"u6700", "u591A">>      \* 最多
ZuiShao == <<"u6700", "u5C11">>     \* 最少
HeJi == <<"u5408", "u8BA1">>        \* 合计
ZongHe == <<"u603B", "u548C">>      \* 总和
ZhangSan == <<"u5F20", "u4E09">>    \* 张三
LiSi == <<"u674E", "u56DB">>        \* 李四
ShouJi == <<"u624B", "u673A">>      \* 手机
DianNao == <<"u7535", "u8111">>     \* 电脑
PingBan == <<"u5E73", "u677F">>     \* 平板
GaoYu == <<"u9AD8", "u4E8E">>       \* 高于
DaYu == <<"u5927", "u4E8E">>        \* 大于
DiYu == <<"u4F4E", "u4E8E">>        \* 低于
XiaoYu == <<"u5C0F", "u4E8E">>      \* 小于
SuoYou == <<"u6240", "u6709">>      \* 所有
FenLei == <<"u5206", "u7C7B">>      \* 分类
XiangQing == <<"u8BE6", "u60C5">>   \* 详情
XiangXi == <<"u8BE6", "u7EC6">>     \* 详细
ShuLiang == <<"u6570", "u91CF">>    \* 数量
ZuiGao == <<"u6700", "u9AD8">>      \* 最高
ZuiDi == <<"u6700", "u4F4E">>       \* 最低

\* 不允许执行 {keyword} 操作，仅支持 SELECT 查询
MsgForbidden(keyword) ==
    <<"u4E0D", "u5141", "u8BB8", "u6267", "u884C">> \o Chars(" ") \o keyword
    \o Chars(" ") \o <<"u64CD", "u4F5C", "uFF0C", "u4EC5", "u652F", "u6301">>
    \o Chars(" SELECT ") \o <<"u67E5", "u8BE2">>
\* SQL语法错误: {error_msg}
MsgSqlSyntaxError(error_msg) ==
    Chars("SQL") \o <<"u8BED", "u6CD5", "u9519", "u8BEF">> \o Chars(": ") \o error_msg
\* 查询执行失败: {error}
MsgQueryFailed(error) ==
    <<"u67E5", "u8BE2", "u6267", "u884C", "u5931", "u8D25">> \o Chars(": ") \o error
\* 未知错误
MsgUnknownError == <<"u672A", "u77E5", "u9519", "u8BEF">>
\* 未找到匹配的数据。
MsgNoData == <<"u672A", "u627E", "u5230", "u5339", "u914D", "u7684", "u6570", "u636E", "u3002">>
\* 统计结果: {parts}
MsgStats(parts) == <<"u7EDF", "u8BA1", "u7ED3", "u679C">> \o Chars(": ") \o parts
\* 平均值为: {value}
MsgAvg(value) == <<"u5E73", "u5747", "u503C", "u4E3A">> \o Chars(": ") \o value
\* 最大值为: {value}
MsgMax(value) == <<"u6700", "u5927", "u503C", "u4E3A">> \o Chars(": ") \o value
\* 最小值为: {value}
MsgMin(value) == <<"u6700", "u5C0F", "u503C", "u4E3A">> \o Chars(": ") \o value
\* 查询完成，找到1条匹配记录。
MsgFoundOne ==
    <<"u67E5", "u8BE2", "u5B8C", "u6210", "uFF0C", "u627E", "u5230">> \o Chars("1")
    \o <<"u6761", "u5339", "u914D", "u8BB0", "u5F55", "u3002">>
\* 查询完成，共找到{row_count}条匹配记录。
MsgFoundMany(row_count) ==
    <<"u67E5", "u8BE2", "u5B8C", "u6210", "uFF0C", "u5171", "u627E", "u5230">>
    \o IntToStr(row_count) \o <<"u6761", "u5339", "u914D", "u8BB0", "u5F55", "u3002">>

\* Python's None, where a text may stand as well: a sequence whose one element
\* is no character, so that it differs from every text
None == <<"None">>

(***************************************************************************)
(* text_to_sql.py: the pure stages of the pipeline                         *)
(***************************************************************************)

\* the index of the first match of re.search(r'[<cls>](\d+)', s), 0 if none
PriceMatchAt(s, cls) ==
    LET hits == {i \in 1..(Len(s) - 1) : s[i] \in cls /\ s[i + 1] \in Digits}
    IN  IF hits = {} THEN 0 ELSE CHOOSE i \in hits : \A j \in hits : i <= j

\* group(1) of that match: the whole digit run after the matched character
PriceGroup(s, i) ==
    LET stop == {j \in (i + 1)..Len(s) : s[j] \notin Digits}
        last == IF stop = {} THEN Len(s)
                ELSE (CHOOSE j \in stop : \A k \in stop : j <= k) - 1
    IN  SubSeq(s, i + 1, last)

\* the character classes [高于大于] and [低于小于]
GreaterClass == {GaoYu[1], GaoYu[2], DaYu[1], DaYu[2]}
LessClass == {DiYu[1], DiYu[2], XiaoYu[1], XiaoYu[2]}

ContainsAny(s, words) == \E w \in words : Contains(s, w)

\* tables_set of _analyze_question_intent
TablesSet(question) ==
    LET question_lower == Lower(question)
    IN  (IF ContainsAny(question_lower, {YongHu, HuiYuan, KeHu}) THEN {"users"} ELSE {})
        \cup (IF ContainsAny(question_lower, {ShangPin, ChanPin, JiaGe, KuCun})
              THEN {"products"} ELSE {})
        \cup (IF ContainsAny(question_lower, {DingDan, GouMai, JiaoYi})
              THEN {"orders"} ELSE {})

Condition(field, operator, value) ==
    [field |-> field, operator |-> operator, value |-> value]

\* the conditions of _analyze_question_intent, in the order they are appended
Conditions(question) ==
    LET question_lower == Lower(question)
        quoted(name) == Chars("'") \o name \o Chars("'")
        price_match == PriceMatchAt(question, GreaterClass)
    IN  (IF Contains(question, ZhangSan)
         THEN <<Condition("users.username", "=", quoted(ZhangSan))>> ELSE <<>>)
        \o (IF Contains(question, LiSi)
            THEN <<Condition("users.username", "=", quoted(LiSi))>> ELSE <<>>)
        \o (IF Contains(question_lower, ShouJi)
            THEN <<Condition("products.category", "=", quoted(ShouJi))>> ELSE <<>>)
        \o (IF Contains(question_lower, DianNao)
            THEN <<Condition("products.category", "=", quoted(DianNao))>> ELSE <<>>)
        \o (IF (Contains(question_lower, GaoYu) \/ Contains(question_lower, DaYu))
               /\ price_match /= 0
            THEN <<Condition("products.price", ">", PriceGroup(question, price_match))>>
            ELSE <<>>)

\* _analyze_question_intent.  intent['tables'] is list(tables_set), a list of the
\* set's elements once each in an order Python leaves open: it is kept as that set
AnalyzeQuestionIntent(question) ==
    [tables |-> TablesSet(question),
     conditions |-> Conditions(question),
     aggregations |-> ContainsAny(Lower(question),
                          {TongJi, ZongShu, PingJun, ZuiDuo, ZuiShao, HeJi, ZongHe}),
     join_required |-> Cardinality(TablesSet(question)) > 1]

\* _validate_sql_candidate
ValidateSqlCandidate(sql) ==
    LET sql_upper == Upper(sql)
        valid_tables == {Chars("users"), Chars("products"), Chars("orders"),
                         Chars("order_details")}
    IN  IF ~Contains(sql_upper, Chars("SELECT")) \/ ~Contains(sql_upper, Chars("FROM"))
        THEN FALSE
        ELSE IF Contains(sql_upper, Chars("SELECT FROM")) THEN FALSE
        ELSE IF ~(\E t \in valid_tables : Contains(sql_upper, Upper(t))) THEN FALSE
        ELSE IF Contains(sql_upper, Chars("JOIN")) /\ ~Contains(sql_upper, Chars("ON"))
        THEN FALSE
        ELSE TRUE

\* the code-fence marker, three backquotes (a backquote is written "backquote")
Fence == <<"backquote", "backquote", "backquote">>

\* re.sub(lit + r'\s*', '', s, flags=re.IGNORECASE)
RemoveFence(s, lit) ==
    LET low == Lower(s)
        RECURSIVE Skip(_)
        Skip(i) == IF i <= Len(s) /\ s[i] \in Whitespace THEN Skip(i + 1) ELSE i
        RECURSIVE R(_)
        R(i) == IF i > Len(s) THEN <<>>
                ELSE IF StartsAt(low, lit, i) THEN R(Skip(i + Len(lit)))
                ELSE <<s[i]>> \o R(i + 1)
    IN  R(1)

\* whether SELECT\s+ matches at i (re.IGNORECASE)
SelectAt(s, i) ==
    /\ StartsAt(Upper(s), Chars("SELECT"), i)
    /\ i + 6 <= Len(s)
    /\ s[i + 6] \in Whitespace

\* the index after the whitespace run that follows SELECT at i
AfterSelect(s, i) ==
    LET stop == {j \in (i + 6)..Len(s) : s[j] \notin Whitespace}
    IN  IF stop = {} THEN Len(s) + 1 ELSE CHOOSE j \in stop : \A k \in stop : j <= k

\* the last index of the match of sql_patterns[tier] that starts at i, 0 if none
MatchEnd(s, tier, i) ==
    IF ~SelectAt(s, i) THEN 0
    ELSE IF tier = 1
    THEN \* (SELECT\s+.*?;)
         LET semi == {j \in (i + 7)..Len(s) : s[j] = ";"}
         IN  IF semi = {} THEN 0 ELSE CHOOSE j \in semi : \A k \in semi : j <= k
    ELSE IF tier = 2
    THEN \* (SELECT\s+.*?(?=SELECT|$)); $ also matches before a final newline
         LET from == AfterSelect(s, i)
             ahead == {j \in from..(Len(s) + 1) :
                          \/ j = Len(s) + 1
                          \/ (j = Len(s) /\ s[j] = "\n")
                          \/ StartsAt(Upper(s), Chars("SELECT"), j)}
         IN  (CHOOSE j \in ahead : \A k \in ahead : j <= k) - 1
    ELSE \* (SELECT\s+.*)
         Len(s)

\* re.findall(sql_patterns[tier], s, re.IGNORECASE | re.DOTALL)
FindAll(s, tier) ==
    LET RECURSIVE R(_)
        R(i) == IF i > Len(s) THEN <<>>
                ELSE LET e == MatchEnd(s, tier, i)
                     IN  IF e = 0 THEN R(i + 1)
                         ELSE <<SubSeq(s, i, e)>> \o R(e + 1)
    IN  R(1)

\* the candidates in the order the two loops of _extract_sql_advanced visit them
Candidates(text) ==
    LET strip(ms) == [k \in 1..Len(ms) |-> Strip(ms[k])]
    IN  strip(FindAll(text, 1)) \o strip(FindAll(text, 2)) \o strip(FindAll(text, 3))

\* _extract_sql_advanced; None when no candidate passes
ExtractSqlAdvanced(text) ==
    LET clean == RemoveFence(RemoveFence(text, Fence \o Chars("sql")), Fence)
        cands == Candidates(clean)
        good == {k \in 1..Len(cands) : ValidateSqlCandidate(cands[k])}
    IN  IF good = {} THEN None
        ELSE LET sql_candidate == cands[CHOOSE k \in good : \A m \in good : k <= m]
             IN  IF EndsWith(sql_candidate, Chars(";")) THEN sql_candidate
                 ELSE sql_candidate \o Chars(";")

\* a mutant: the ';' is appended whether or not the text ends with one
PostProcessSqlAlwaysCloses(sql, question) == Strip(CollapseWs(sql)) \o Chars(";")

\* _post_process_sql
PostProcessSql(sql, question) ==
    LET spaced == Strip(CollapseWs(sql))
        closed == IF EndsWith(spaced, Chars(";")) THEN spaced ELSE spaced \o Chars(";")
        sql_upper == Upper(closed)
    IN  IF /\ Contains(question, ZhangSan) /\ ~Contains(closed, ZhangSan)
           /\ Contains(sql_upper, Chars("users")) /\ ~Contains(sql_upper, Chars("WHERE"))
        THEN ReplaceChar(closed, ";",
                 Chars(" WHERE username = '") \o ZhangSan \o Chars("';"))
        ELSE closed

\* the f-string of the two price rules
PriceSql(op, digits) ==
    Chars("SELECT * FROM products WHERE price ") \o op \o Chars(" ") \o digits \o Chars(";")

UserOrdersSql(name) ==
    Chars("SELECT o.* FROM orders o JOIN users u ON o.user_id = u.user_id WHERE u.username = '")
    \o name \o Chars("';")

CategorySql(category) ==
    Chars("SELECT * FROM products WHERE category = '") \o category \o Chars("';")

DefaultSql == Chars("SELECT * FROM order_details LIMIT 10;")

\* a mutant: a rule that is entered and yields nothing returns None, as a function
\* body that ends without a return does
GenerateSqlByIntentNoneOnMiss(question) ==
    LET question_lower == Lower(question)
    IN  IF Contains(question, SuoYou \o YongHu) THEN Chars("SELECT * FROM users;")
        ELSE IF Contains(question, SuoYou \o ShangPin) THEN Chars("SELECT * FROM products;")
        ELSE IF Contains(question, SuoYou \o DingDan) THEN Chars("SELECT * FROM orders;")
        ELSE IF Contains(question, ZhangSan) /\ Contains(question, DingDan)
        THEN UserOrdersSql(ZhangSan)
        ELSE IF Contains(question, LiSi) /\ Contains(question, DingDan)
        THEN UserOrdersSql(LiSi)
        ELSE IF Contains(question_lower, ShouJi) THEN CategorySql(ShouJi)
        ELSE IF Contains(question_lower, DianNao) THEN CategorySql(DianNao)
        ELSE IF Contains(question_lower, PingBan) THEN CategorySql(PingBan)
        ELSE IF Contains(question, JiaGe \o GaoYu) \/ Contains(question, JiaGe \o DaYu)
        THEN LET price_match == PriceMatchAt(question, GreaterClass)
             IN  IF price_match /= 0
                 THEN PriceSql(Chars(">"), PriceGroup(question, price_match))
                 ELSE None
        ELSE IF Contains(question, JiaGe \o DiYu) \/ Contains(question, JiaGe \o XiaoYu)
        THEN LET price_match == PriceMatchAt(question, LessClass)
             IN  IF price_match /= 0
                 THEN PriceSql(Chars("<"), PriceGroup(question, price_match))
                 ELSE None
        ELSE IF Contains(question, TongJi) \/ Contains(question, ZongShu)
        THEN IF Contains(question, YongHu) /\ Contains(question, DingDan)
             THEN Chars("SELECT u.username, COUNT(o.order_id) as order_count FROM users u LEFT JOIN orders o ON u.user_id = o.user_id GROUP BY u.user_id, u.username;")
             ELSE IF Contains(question, FenLei) /\ Contains(question, ShangPin)
             THEN Chars("SELECT category, COUNT(*) as product_count FROM products GROUP BY category;")
             ELSE IF Contains(question, DingDan)
             THEN Chars("SELECT COUNT(*) as total_orders FROM orders;")
             ELSE None
        ELSE IF Contains(question, XiangQing) \/ Contains(question, XiangXi)
        THEN Chars("SELECT * FROM order_details;")
        ELSE DefaultSql

\* a mutant: the category rule is tried before the "all <table>" rules
GenerateSqlByIntentCategoryFirst(question) ==
    LET question_lower == Lower(question)
    IN  IF Contains(question_lower, ShouJi) THEN CategorySql(ShouJi)
        ELSE IF Contains(question, SuoYou \o YongHu) THEN Chars("SELECT * FROM users;")
        ELSE IF Contains(question, SuoYou \o ShangPin) THEN Chars("SELECT * FROM products;")
        ELSE IF Contains(question, SuoYou \o DingDan) THEN Chars("SELECT * FROM orders;")
        ELSE IF Contains(question, ZhangSan) /\ Contains(question, DingDan)
        THEN UserOrdersSql(ZhangSan)
        ELSE IF Contains(question, LiSi) /\ Contains(question, DingDan)
        THEN UserOrdersSql(LiSi)
        ELSE IF Contains(question_lower, ShouJi) THEN CategorySql(ShouJi)
        ELSE IF Contains(question_lower, DianNao) THEN CategorySql(DianNao)
        ELSE IF Contains(question_lower, PingBan) THEN CategorySql(PingBan)
        ELSE IF Contains(question, JiaGe \o GaoYu) \/ Contains(question, JiaGe \o DaYu)
        THEN LET price_match == PriceMatchAt(question, GreaterClass)
             IN  IF price_match /= 0
                 THEN PriceSql(Chars(">"), PriceGroup(question, price_match))
                 ELSE DefaultSql
        ELSE IF Contains(question, JiaGe \o DiYu) \/ Contains(question, JiaGe \o XiaoYu)
        THEN LET price_match == PriceMatchAt(question, LessClass)
             IN  IF price_match /= 0
                 THEN PriceSql(Chars("<"), PriceGroup(question, price_match))
                 ELSE DefaultSql
        ELSE IF Contains(question, TongJi) \/ Contains(question, ZongShu)
        THEN IF Contains(question, YongHu) /\ Contains(question, DingDan)
             THEN Chars("SELECT u.username, COUNT(o.order_id) as order_count FROM users u LEFT JOIN orders o ON u.user_id = o.user_id GROUP BY u.user_id, u.username;")
             ELSE IF Contains(question, FenLei) /\ Contains(question, ShangPin)
             THEN Chars("SELECT category, COUNT(*) as product_count FROM products GROUP BY category;")
             ELSE IF Contains(question, DingDan)
             THEN Chars("SELECT COUNT(*) as total_orders FROM orders;")
             ELSE DefaultSql
        ELSE IF Contains(question, XiangQing) \/ Contains(question, XiangXi)
        THEN Chars("SELECT * FROM order_details;")
        ELSE DefaultSql

\* _generate_sql_by_intent (the intent argument is never read); the branch whose
\* inner test fails leaves the if/elif chain and reaches the final return
GenerateSqlByIntent(question) ==
    LET question_lower == Lower(question)
    IN  IF Contains(question, SuoYou \o YongHu) THEN Chars("SELECT * FROM users;")
        ELSE IF Contains(question, SuoYou \o ShangPin) THEN Chars("SELECT * FROM products;")
        ELSE IF Contains(question, SuoYou \o DingDan) THEN Chars("SELECT * FROM orders;")
        ELSE IF Contains(question, ZhangSan) /\ Contains(question, DingDan)
        THEN UserOrdersSql(ZhangSan)
        ELSE IF Contains(question, LiSi) /\ Contains(question, DingDan)
        THEN UserOrdersSql(LiSi)
        ELSE IF Contains(question_lower, ShouJi) THEN CategorySql(ShouJi)
        ELSE IF Contains(question_lower, DianNao) THEN CategorySql(DianNao)
        ELSE IF Contains(question_lower, PingBan) THEN CategorySql(PingBan)
        ELSE IF Contains(question, JiaGe \o GaoYu) \/ Contains(question, JiaGe \o DaYu)
        THEN LET price_match == PriceMatchAt(question, GreaterClass)
             IN  IF price_match /= 0
                 THEN PriceSql(Chars(">"), PriceGroup(question, price_match))
                 ELSE DefaultSql
        ELSE IF Contains(question, JiaGe \o DiYu) \/ Contains(question, JiaGe \o XiaoYu)
        THEN LET price_match == PriceMatchAt(question, LessClass)
             IN  IF price_match /= 0
                 THEN PriceSql(Chars("<"), PriceGroup(question, price_match))
                 ELSE DefaultSql
        ELSE IF Contains(question, TongJi) \/ Contains(question, ZongShu)
        THEN IF Contains(question, YongHu) /\ Contains(question, DingDan)
             THEN Chars("SELECT u.username, COUNT(o.order_id) as order_count FROM users u LEFT JOIN orders o ON u.user_id = o.user_id GROUP BY u.user_id, u.username;")
             ELSE IF Contains(question, FenLei) /\ Contains(question, ShangPin)
             THEN Chars("SELECT category, COUNT(*) as product_count FROM products GROUP BY category;")
             ELSE IF Contains(question, DingDan)
             THEN Chars("SELECT COUNT(*) as total_orders FROM orders;")
             ELSE DefaultSql
        ELSE IF Contains(question, XiangQing) \/ Contains(question, XiangXi)
        THEN Chars("SELECT * FROM order_details;")
        ELSE DefaultSql

\* a cell of a fetched row: a Python int or a Python str
IntCell(n) == <<"int", n>>
TextCell(t) == <<"str", t>>

\* str(value) of a cell: an integer in decimal, a text as it is
ValueToStr(value) == IF value[1] = "int" THEN IntToStr(value[2]) ELSE value[2]

\* the value of the first column of first_row whose lower-cased name contains
\* marker, None if there is none; a row is a sequence of <<name, value>> pairs
FirstMarked(first_row, marker) ==
    LET hits == {k \in 1..Len(first_row) : Contains(Lower(first_row[k][1]), marker)}
    IN  IF hits = {} THEN None
        ELSE ValueToStr(first_row[CHOOSE k \in hits : \A m \in hits : k <= m][2])

\* the closing, default sentence of _generate_intelligent_summary
DefaultSummary(row_count) ==
    IF row_count = 1 THEN MsgFoundOne ELSE MsgFoundMany(row_count)

\* a mutant: the parts are built from the first row only
SummaryPartsFirstRow(data) ==
    IF Len(data) > 0 /\ Len(data[1]) = 2
    THEN <<ValueToStr(data[1][1][2]) \o Chars(": ") \o ValueToStr(data[1][2][2])>>
    ELSE <<>>

\* the "<col0>: <col1>" parts of the rows that have two columns, in row order
SummaryParts(data) ==
    LET RECURSIVE R(_)
        R(k) == IF k > Len(data) THEN <<>>
                ELSE (IF Len(data[k]) = 2
                      THEN <<ValueToStr(data[k][1][2]) \o Chars(": ")
                             \o ValueToStr(data[k][2][2])>>
                      ELSE <<>>) \o R(k + 1)
    IN  R(1)

\* a mutant: the test of row_count = 0 is left out
GenerateIntelligentSummaryWithoutNoData(question, sql, result) ==
    IF ~result.success THEN MsgQueryFailed(result.error)
    ELSE IF /\ ContainsAny(Lower(question), {TongJi, ZongShu, ShuLiang})
            /\ Len(result.data) > 0
            /\ Len(SummaryParts(result.data)) > 0
    THEN MsgStats(Join(SummaryParts(result.data), Chars(", ")))
    ELSE DefaultSummary(result.row_count)

\* _generate_intelligent_summary
GenerateIntelligentSummary(question, sql, result) ==
    LET question_lower == Lower(question)
        data == result.data
        row_count == result.row_count
    IN  IF ~result.success
        THEN MsgQueryFailed(IF "error" \in DOMAIN result THEN result.error
                            ELSE MsgUnknownError)
        ELSE IF row_count = 0 THEN MsgNoData
        ELSE IF ContainsAny(question_lower, {TongJi, ZongShu, ShuLiang})
        THEN IF Len(data) > 0 /\ Len(data[1]) = 2 /\ Len(SummaryParts(data)) > 0
             THEN MsgStats(Join(SummaryParts(data), Chars(", ")))
             ELSE DefaultSummary(row_count)
        ELSE IF Contains(question_lower, PingJun)
        THEN IF Len(data) > 0 /\ FirstMarked(data[1], Chars("avg")) /= None
             THEN MsgAvg(FirstMarked(data[1], Chars("avg")))
             ELSE DefaultSummary(row_count)
        ELSE IF Contains(question_lower, ZuiDuo) \/ Contains(question_lower, ZuiGao)
        THEN IF Len(data) > 0 /\ FirstMarked(data[1], Chars("max")) /= None
             THEN MsgMax(FirstMarked(data[1], Chars("max")))
             ELSE DefaultSummary(row_count)
        ELSE IF Contains(question_lower, ZuiShao) \/ Contains(question_lower, ZuiDi)
        THEN IF Len(data) > 0 /\ FirstMarked(data[1], Chars("min")) /= None
             THEN MsgMin(FirstMarked(data[1], Chars("min")))
             ELSE DefaultSummary(row_count)
        ELSE DefaultSummary(row_count)

(***************************************************************************)
(* database.py: the storage gate.  What the SQLite engine answers is an    *)
(* input of the model: engine is None (no error) or the text of the        *)
(* sqlite3.Error it raises.                                                *)
(***************************************************************************)

dangerous_keywords ==
    <<Chars("INSERT"), Chars("UPDATE"), Chars("DELETE"), Chars("DROP"),
      Chars("ALTER"), Chars("CREATE"), Chars("TRUNCATE")>>

\* a mutant: the scan compares with the text as written, not upper-cased
FirstDangerousCaseSensitive(sql) ==
    LET hits == {k \in 1..Len(dangerous_keywords) : Contains(Strip(sql), dangerous_keywords[k])}
    IN  IF hits = {} THEN None
        ELSE dangerous_keywords[CHOOSE k \in hits : \A m \in hits : k <= m]

\* the first keyword of dangerous_keywords found in sql, None if there is none
FirstDangerous(sql) ==
    LET sql_upper == Upper(Strip(sql))
        hits == {k \in 1..Len(dangerous_keywords) : Contains(sql_upper, dangerous_keywords[k])}
    IN  IF hits = {} THEN None
        ELSE dangerous_keywords[CHOOSE k \in hits : \A m \in hits : k <= m]

\* the statement handed to EXPLAIN QUERY PLAN
SqlClean(sql) == Strip(RStripSemi(sql))

\* a mutant: the keyword scan is left out, the dry run alone decides
ValidateSqlDryRunOnly(sql, engine) ==
    IF engine = None
    THEN [is_valid |-> TRUE, error_msg |-> None]
    ELSE [is_valid |-> FALSE, error_msg |-> engine]

\* validate_sql: the pair (is_valid, error_msg)
ValidateSql(sql, engine) ==
    IF FirstDangerous(sql) /= None
    THEN [is_valid |-> FALSE, error_msg |-> MsgForbidden(FirstDangerous(sql))]
    ELSE IF engine = None
    THEN [is_valid |-> TRUE, error_msg |-> None]
    ELSE [is_valid |-> FALSE, error_msg |-> engine]

\* whether validate_sql reaches the engine (EXPLAIN QUERY PLAN is run)
ReachesDryRun(sql) == FirstDangerous(sql) = None

\* execute_query: rows is the fetched data when the engine raises nothing
ExecuteQuery(sql, engine, columns, rows) ==
    IF engine = None
    THEN [success |-> TRUE, columns |-> columns, data |-> rows, row_count |-> Len(rows)]
    ELSE [success |-> FALSE, error |-> engine, columns |-> <<>>, data |-> <<>>,
          row_count |-> 0]

(***************************************************************************)
(* Bounds and inputs                                                       *)
(***************************************************************************)

\* a question is at most MaxWords words of Words, one after the other
MaxWords == 2
\* a result set has at most MaxRows rows
MaxRows == 2

\* 查询所有用户信息
QueryAllUsers == <<"u67E5", "u8BE2">> \o SuoYou \o YongHu \o <<"u4FE1", "u606F">>
\* 统计每个分类的商品数量
CountPerCategory ==
    TongJi \o <<"u6BCF", "u4E2A">> \o FenLei \o <<"u7684">> \o ShangPin \o ShuLiang

\* 统计每个用户的订单数量
CountPerUser ==
    TongJi \o <<"u6BCF", "u4E2A">> \o YongHu \o <<"u7684">> \o DingDan \o ShuLiang

Words ==
    {QueryAllUsers, CountPerCategory, CountPerUser, ZhangSan, DingDan, ShouJi,
     JiaGe \o GaoYu, JiaGe \o XiaoYu, Chars("5000"), TongJi, YongHu, XiangQing}

RECURSIVE Phrases(_)
Phrases(n) ==
    IF n = 0 THEN {<<>>}
    ELSE Phrases(n - 1) \cup {p \o w : p \in Phrases(n - 1), w \in Words}

\* the questions asked of a converter whose model failed to load
Questions == Phrases(MaxWords)

\* the questions asked of a converter with a model
ModelQuestions ==
    {<<>>, QueryAllUsers, CountPerCategory, ZhangSan \o YongHu,
     SuoYou \o ShangPin, SuoYou \o DingDan, LiSi \o DingDan, DianNao, PingBan,
     XiangXi, ZongShu \o DingDan}

\* what the model may generate; the empty text is _generate_sql's failure value
ModelTexts ==
    {<<>>,
     Chars("SELECT * FROM users;"),
     Fence \o Chars("sql\nSELECT name,  price\nFROM products\n") \o Fence,
     Chars("SELECT * FROM users; DROP TABLE users;"),
     Chars("SELECT created_at FROM users;"),
     Chars("select * from users drop table users"),
     Chars("SELECT FROM users; SELECT username FROM users;"),
     Chars("SELECT * FROM orders JOIN users"),
     Chars("I cannot answer that.")}

\* the texts of the sqlite3.Error the engine may raise
DryRunErrors == {Chars("no such column: name")}
ExecuteErrors == {Chars("no such table: users")}

TwoColumnRows ==
    {<<<<Chars("category"), TextCell(ShouJi)>>, <<Chars("product_count"), IntCell(2)>>>>,
     <<<<Chars("category"), TextCell(DianNao)>>, <<Chars("product_count"), IntCell(1)>>>>}
OneColumnRow == <<<<Chars("avg_price"), IntCell(12)>>>>
ThreeColumnRow ==
    <<<<Chars("user_id"), IntCell(1)>>, <<Chars("username"), TextCell(ZhangSan)>>,
      <<Chars("email"), TextCell(Chars("a@b.c"))>>>>

\* the fetched rows of one result set: every row has the columns of the first
ResultSets ==
    UNION {[1..n -> TwoColumnRows] : n \in 0..MaxRows}
    \cup {[k \in 1..n |-> OneColumnRow] : n \in 1..MaxRows}
    \cup {[k \in 1..n |-> ThreeColumnRow] : n \in 1..MaxRows}

\* cursor.description of a result set
ColumnsOf(rows) ==
    IF Len(rows) = 0 THEN <<>> ELSE [k \in 1..Len(rows[1]) |-> rows[1][k][1]]

(***************************************************************************)
(* State                                                                   *)
(***************************************************************************)
VARIABLES
    model,           \* TextToSQL.model: "loaded", or "None" after a failed load
    pc,              \* where convert (or the function under check) stands
    question,        \* convert's argument
    generated_text,  \* what _generate_sql returned
    intent,          \* convert's and _smart_fallback's local intent
    sql,             \* the statement convert holds
    calls,           \* the calls made to the Database, in order
    failure,         \* the failure point of the model branch, "none" if none
    ret,             \* the returned dict, <<>> before the return
    converter,       \* app.converter: None or the instance constructed
    constructions,   \* how many times TextToSQL() has run in the process
    requests         \* the requests of the web layer, each on its thread

convVars == <<model, pc, question, intent, generated_text, sql, calls, failure, ret>>
appVars == <<converter, constructions, requests>>
vars == <<model, pc, question, intent, generated_text, sql, calls, failure, ret,
          converter, constructions, requests>>

ValidateCall(s, v) == [op |-> "validate_sql", sql |-> s, is_valid |-> v.is_valid,
                       error_msg |-> v.error_msg, dry_run |-> ReachesDryRun(s)]
ExecuteCall(s, r) == [op |-> "execute_query", sql |-> s, success |-> r.success,
                      error |-> IF r.success THEN None ELSE r.error]

(***************************************************************************)
(* TextToSQL.convert, one Database or model call per step                  *)
(***************************************************************************)

Init ==
    /\ model \in {"loaded", "None"}
    /\ pc = "idle"
    /\ question = <<>>
    /\ intent = <<>>
    /\ generated_text = <<>>
    /\ sql = <<>>
    /\ calls = <<>>
    /\ failure = "none"
    /\ ret = <<>>
    /\ converter = None
    /\ constructions = 0
    /\ requests = <<>>

\* convert is entered: the model test of its first lines
ConvertEnter ==
    /\ pc = "idle"
    /\ \E q \in (IF model = "None" THEN Questions ELSE ModelQuestions) :
           question' = q
    /\ IF model = "None"
       THEN pc' = "fallback" /\ failure' = "model_unavailable" /\ intent' = <<>>
       ELSE /\ pc' = "generate"
            /\ failure' = "none"
            /\ intent' = AnalyzeQuestionIntent(question')
    /\ generated_text' = <<>>
    /\ sql' = <<>>
    /\ calls' = <<>>
    /\ ret' = <<>>
    /\ UNCHANGED <<model, appVars>>

\* _build_context_aware_prompt and _generate_sql
GenerateSql ==
    /\ pc = "generate"
    /\ \E text \in ModelTexts :
           /\ generated_text' = text
           /\ IF text = <<>>
              THEN pc' = "fallback" /\ failure' = "model_empty"
              ELSE pc' = "extract" /\ UNCHANGED failure
    /\ UNCHANGED <<model, question, intent, sql, calls, ret, appVars>>

\* a mutant: a failed extraction is returned as an error instead of falling back
ExtractSqlNoFallback ==
    /\ pc = "extract"
    /\ LET extracted == ExtractSqlAdvanced(generated_text)
       IN  IF extracted = None
           THEN /\ pc' = "done"
                /\ failure' = "extraction_none"
                /\ ret' = [success |-> FALSE, error |-> MsgSqlSyntaxError(<<>>),
                           question |-> question]
                /\ UNCHANGED sql
           ELSE /\ sql' = PostProcessSql(extracted, question)
                /\ pc' = "validate"
                /\ UNCHANGED <<failure, ret>>
    /\ UNCHANGED <<model, question, intent, generated_text, calls, appVars>>

\* _extract_sql_advanced, then _post_process_sql
ExtractSql ==
    /\ pc = "extract"
    /\ LET extracted == ExtractSqlAdvanced(generated_text)
       IN  IF extracted = None
           THEN pc' = "fallback" /\ failure' = "extraction_none" /\ UNCHANGED sql
           ELSE /\ sql' = PostProcessSql(extracted, question)
                /\ pc' = "validate"
                /\ UNCHANGED failure
    /\ UNCHANGED <<model, question, intent, generated_text, calls, ret, appVars>>

\* a mutant: the verdict of validate_sql is not looked at
ValidateStepIgnoringVerdict ==
    /\ pc = "validate"
    /\ \E engine \in (IF ReachesDryRun(sql) THEN {None} \cup DryRunErrors ELSE {None}) :
           calls' = Append(calls, ValidateCall(sql, ValidateSql(sql, engine)))
    /\ pc' = "execute"
    /\ UNCHANGED <<model, question, intent, generated_text, sql, failure, ret, appVars>>

\* db.validate_sql and the return of a rejection
ValidateStep ==
    /\ pc = "validate"
    /\ \E engine \in (IF ReachesDryRun(sql) THEN {None} \cup DryRunErrors ELSE {None}) :
           LET v == ValidateSql(sql, engine)
           IN  /\ calls' = Append(calls, ValidateCall(sql, v))
               /\ IF ~v.is_valid
                  THEN /\ ret' = [success |-> FALSE,
                                  error |-> MsgSqlSyntaxError(v.error_msg),
                                  question |-> question,
                                  sql |-> sql]
                       /\ pc' = "done"
                       /\ failure' = "validation_rejected"
                  ELSE /\ pc' = "execute"
                       /\ UNCHANGED <<ret, failure>>
    /\ UNCHANGED <<model, question, intent, generated_text, sql, appVars>>

\* a mutant: a failed execution is returned with success = false beside the result
ExecuteStepFailureKeepsResult ==
    /\ pc = "execute"
    /\ \E engine \in {None} \cup ExecuteErrors :
       \E rows \in (IF engine = None THEN ResultSets ELSE {<<>>}) :
           LET result == ExecuteQuery(sql, engine, ColumnsOf(rows), rows)
           IN  /\ calls' = Append(calls, ExecuteCall(sql, result))
               /\ ret' = [success |-> result.success,
                          question |-> question,
                          sql |-> sql,
                          result |-> result,
                          summary |-> GenerateIntelligentSummary(question, sql, result),
                          method |-> "llm",
                          intent_analysis |-> intent]
    /\ pc' = "done"
    /\ UNCHANGED <<model, question, intent, generated_text, sql, failure, appVars>>

\* db.execute_query, _generate_intelligent_summary and the return of the model path
ExecuteStep ==
    /\ pc = "execute"
    /\ \E engine \in {None} \cup ExecuteErrors :
       \E rows \in (IF engine = None THEN ResultSets ELSE {<<>>}) :
           LET result == ExecuteQuery(sql, engine, ColumnsOf(rows), rows)
           IN  /\ calls' = Append(calls, ExecuteCall(sql, result))
               /\ ret' = [success |-> TRUE,
                          question |-> question,
                          sql |-> sql,
                          result |-> result,
                          summary |-> GenerateIntelligentSummary(question, sql, result),
                          method |-> "llm",
                          intent_analysis |-> intent]
    /\ pc' = "done"
    /\ UNCHANGED <<model, question, intent, generated_text, sql, failure, appVars>>

\* _smart_fallback
SmartFallback ==
    /\ pc = "fallback"
    /\ intent' = AnalyzeQuestionIntent(question)
    /\ sql' = GenerateSqlByIntent(question)
    /\ \E engine \in {None} \cup ExecuteErrors :
       \E rows \in (IF engine = None THEN ResultSets ELSE {<<>>}) :
           LET result == ExecuteQuery(sql', engine, ColumnsOf(rows), rows)
           IN  /\ calls' = Append(calls, ExecuteCall(sql', result))
               /\ ret' = [success |-> TRUE,
                          question |-> question,
                          sql |-> sql',
                          result |-> result,
                          summary |-> GenerateIntelligentSummary(question, sql', result),
                          method |-> "intent_based_fallback",
                          intent_analysis |-> intent']
    /\ pc' = "done"
    /\ UNCHANGED <<model, question, generated_text, failure, appVars>>

\* the caller has the dict; the converter takes the next question
ConvertReturn ==
    /\ pc = "done"
    /\ pc' = "idle"
    /\ question' = <<>>
    /\ intent' = <<>>
    /\ generated_text' = <<>>
    /\ sql' = <<>>
    /\ calls' = <<>>
    /\ failure' = "none"
    /\ ret' = <<>>
    /\ UNCHANGED <<model, appVars>>

Next ==
    \/ ConvertEnter
    \/ GenerateSql
    \/ ExtractSql
    \/ ValidateStep
    \/ ExecuteStep
    \/ SmartFallback
    \/ ConvertReturn

Spec == Init /\ [][Next]_vars

(***************************************************************************)
(* Properties of convert                                                   *)
(***************************************************************************)

\* k occurs in s whatever the case of s's letters (k is upper case)
OccursAnyCase(s, k) ==
    \E i \in 1..(Len(s) - Len(k) + 1) : \A j \in 1..Len(k) : UpperChar(s[i + j - 1]) = k[j]

Returned == pc = "done"
IsExecute(c) == c.op = "execute_query"
IsValidate(c) == c.op = "validate_sql"
ReturnedFallback ==
    /\ Returned
    /\ "method" \in DOMAIN ret
    /\ ret.method = "intent_based_fallback"

\* C1: on the model path a statement that validate_sql rejects is never handed to
\* execute_query and convert returns success = false with an error text that
\* carries the validator's message; execute_query is reached on the model path
\* only after validate_sql accepted the same statement text.
C1_RejectionNeverExecuted ==
    \A i \in 1..Len(calls) :
        /\ (IsValidate(calls[i]) /\ ~calls[i].is_valid) =>
               /\ \A j \in 1..Len(calls) : ~IsExecute(calls[j])
               /\ Returned
               /\ ret.success = FALSE
               /\ "error" \in DOMAIN ret
               /\ Contains(ret.error, calls[i].error_msg)
               /\ ret.sql = calls[i].sql
        /\ (IsExecute(calls[i]) /\ failure = "none") =>
               \E j \in 1..(i - 1) :
                   /\ IsValidate(calls[j])
                   /\ calls[j].is_valid
                   /\ calls[j].sql = calls[i].sql

\* a security rejection has been returned to the caller
C1_Witness ==
    /\ Returned
    /\ failure = "validation_rejected"
    /\ Len(calls) = 1
    /\ ~calls[1].dry_run
    /\ ~calls[1].is_valid

\* C2: every statement handed to execute_query, on the model path and on the
\* fallback path, contains none of the seven blacklisted keywords in any letter
\* case, and the statement of the fallback path passes validate_sql's security
\* check unchanged.
C2_ExecutedIsReadOnly ==
    /\ \A i \in 1..Len(calls) :
           IsExecute(calls[i]) =>
               \A k \in 1..Len(dangerous_keywords) :
                   ~OccursAnyCase(calls[i].sql, dangerous_keywords[k])
    /\ ReturnedFallback =>
           /\ ValidateSql(ret.sql, None).is_valid
           /\ calls[Len(calls)].sql = ret.sql

\* the model wrote a DROP, and what was executed on the model path has none
C2_Witness ==
    /\ Returned
    /\ "method" \in DOMAIN ret
    /\ ret.method = "llm"
    /\ OccursAnyCase(generated_text, Chars("DROP"))
    /\ IsExecute(calls[Len(calls)])

FallbackFailures == {"model_unavailable", "model_empty", "extraction_none"}

\* the request ended on the fallback branch: the rule-based statement was
\* executed and the dict says method = "intent_based_fallback"
EndedInFallback ==
    /\ ReturnedFallback
    /\ Len(calls) > 0
    /\ IsExecute(calls[Len(calls)])
    /\ calls[Len(calls)].sql = ret.sql
    /\ ValidateSqlCandidate(ret.sql)

\* C4 as stated: from every failure point of the model branch, a validation
\* rejection included, convert goes to the fallback branch and ends there.
C4_EveryFailureFallsBack ==
    failure /= "none" => (pc = "fallback" \/ EndedInFallback)

\* C4 as the code has it: from the failure points "model unavailable", "model call
\* returned nothing" and "extraction yields none" convert goes to the fallback
\* branch, executes the rule-based statement and returns method =
\* "intent_based_fallback"; a validation rejection does not fall back, it returns
\* success = false and nothing is executed.
C4_FailureFallsBackButRejection ==
    /\ failure \in FallbackFailures =>
           \/ pc = "fallback" /\ ENABLED SmartFallback
           \/ EndedInFallback
    /\ failure = "validation_rejected" =>
           /\ Returned
           /\ ret.success = FALSE
           /\ "method" \notin DOMAIN ret
           /\ \A i \in 1..Len(calls) : ~IsExecute(calls[i])

\* extraction found no statement in the model's text and the fallback ran
C4_Witness ==
    /\ failure = "extraction_none"
    /\ generated_text /= <<>>
    /\ EndedInFallback

\* C6: when execute_query reports an engine error, the returned dict carries the
\* engine's message in its error field (and success is false).
C6_ExecuteErrorInErrorField ==
    \A i \in 1..Len(calls) :
        (Returned /\ IsExecute(calls[i]) /\ ~calls[i].success) =>
            /\ "error" \in DOMAIN ret
            /\ Contains(ret.error, calls[i].error)
            /\ ret.success = FALSE

\* C7: a returned dict with success = true has result and summary and no error;
\* one with success = false has error and neither result nor summary.
C7_ExactlyOneSide ==
    Returned =>
        /\ ret.success = TRUE =>
               /\ {"result", "summary"} \subseteq DOMAIN ret
               /\ Len(ret.summary) > 0
               /\ "error" \notin DOMAIN ret
        /\ ret.success = FALSE =>
               /\ "error" \in DOMAIN ret
               /\ Len(ret.error) > 0
               /\ "result" \notin DOMAIN ret
               /\ "summary" \notin DOMAIN ret

\* both shapes are returned; this is the failing one, after a dry-run error
C7_Witness ==
    /\ Returned
    /\ ret.success = FALSE
    /\ calls[1].dry_run

\* C8: for every question _generate_sql_by_intent returns a text, never None,
\* that is not empty, contains SELECT and ends with ';'.
C8_FallbackStatementTotal ==
    ReturnedFallback =>
        /\ ret.sql /= None
        /\ Len(ret.sql) > 0
        /\ Contains(ret.sql, Chars("SELECT"))
        /\ EndsWith(ret.sql, Chars(";"))

\* a price phrase with no digits after it: the rule is entered and yields nothing
C8_Witness ==
    /\ ReturnedFallback
    /\ Contains(question, JiaGe \o GaoYu)
    /\ PriceMatchAt(question, GreaterClass) = 0
    /\ ~Contains(question, ShouJi)
    /\ ret.sql = DefaultSql

\* C9: with no model, convert returns method = "intent_based_fallback", and for
\* 查询所有用户信息 the statement "SELECT * FROM users;"; every question that
\* contains 所有用户 gets exactly that statement on the fallback path, whatever
\* other rule keywords it contains.
C9_AllUsersFirst ==
    /\ (Returned /\ model = "None") => ReturnedFallback
    /\ (Returned /\ model = "None" /\ question = QueryAllUsers) =>
           ret.sql = Chars("SELECT * FROM users;")
    /\ (ReturnedFallback /\ Contains(question, SuoYou \o YongHu)) =>
           /\ ret.sql = Chars("SELECT * FROM users;")
           /\ calls[Len(calls)].sql = Chars("SELECT * FROM users;")

\* 所有用户 together with a category keyword, which has a rule of its own
C9_Witness ==
    /\ ReturnedFallback
    /\ model = "None"
    /\ Contains(question, SuoYou \o YongHu)
    /\ Contains(question, ShouJi)
    /\ ret.sql = Chars("SELECT * FROM users;")

\* "<col0>: <col1>" of row k
PairOf(row) == ValueToStr(row[1][2]) \o Chars(": ") \o ValueToStr(row[2][2])

\* 统计结果: 手机: 2, 电脑: 1
PhonesTwoComputersOne ==
    <<"u7EDF", "u8BA1", "u7ED3", "u679C">> \o Chars(": ") \o ShouJi \o Chars(": 2, ")
    \o DianNao \o Chars(": 1")

PhonesThenComputers ==
    <<<<<<Chars("category"), TextCell(ShouJi)>>, <<Chars("product_count"), IntCell(2)>>>>,
      <<<<Chars("category"), TextCell(DianNao)>>, <<Chars("product_count"), IntCell(1)>>>>>>

\* C10: the fallback statement of 统计每个分类的商品数量 is the per-category count;
\* the summary of a successful, non-empty result whose rows have two columns each,
\* for a question with a counting keyword, is "统计结果: " and the "<col0>: <col1>"
\* pairs of all rows in row order joined by ", ".
C10_CategoryCountSummary ==
    /\ (ReturnedFallback /\ question = CountPerCategory) =>
           ret.sql = Chars("SELECT category, COUNT(*) as product_count FROM products GROUP BY category;")
    /\ (/\ Returned
        /\ ret.success
        /\ ret.result.success
        /\ ret.result.row_count > 0
        /\ \A k \in 1..Len(ret.result.data) : Len(ret.result.data[k]) = 2
        /\ ContainsAny(question, {TongJi, ZongShu, ShuLiang})) =>
           LET data == ret.result.data
               RECURSIVE Rest(_)
               Rest(k) == IF k > Len(data) THEN <<>>
                          ELSE Chars(", ") \o PairOf(data[k]) \o Rest(k + 1)
           IN  /\ ret.summary = <<"u7EDF", "u8BA1", "u7ED3", "u679C">> \o Chars(": ")
                                \o PairOf(data[1]) \o Rest(2)
               /\ data = PhonesThenComputers => ret.summary = PhonesTwoComputersOne

\* the spec's example: two categories counted for 统计每个分类的商品数量
C10_Witness ==
    /\ ReturnedFallback
    /\ question = CountPerCategory
    /\ ret.result.success
    /\ ret.result.data = PhonesThenComputers
    /\ ret.summary = PhonesTwoComputersOne

(***************************************************************************)
(* Database.validate_sql on its own                                        *)
(***************************************************************************)

\* a text given to validate_sql is at most MaxParts parts of GateParts
MaxParts == 2

\* the spec's example of a smuggled second statement
DropExample == Chars("SELECT * FROM users; DROP TABLE users;")

GateParts ==
    {Chars("SELECT * FROM users"), Chars(";"), Chars(" "), Chars("\n"),
     Chars("drop"), Chars("Insert"), Chars("UPDATE"), Chars("DeLeTe"),
     Chars("truncate"), Chars("ALTER"), Chars("cReAtE"), Chars("created_at"),
     Chars("DR"), Chars("OP"), DropExample}

RECURSIVE GateTexts(_)
GateTexts(n) ==
    IF n = 0 THEN {<<>>}
    ELSE GateTexts(n - 1) \cup {p \o w : p \in GateTexts(n - 1), w \in GateParts}

InitGate ==
    /\ model = "None"
    /\ pc = "gate"
    /\ question = <<>>
    /\ intent = <<>>
    /\ generated_text = <<>>
    /\ sql \in GateTexts(MaxParts)
    /\ calls = <<>>
    /\ failure = "none"
    /\ ret = <<>>
    /\ converter = None
    /\ constructions = 0
    /\ requests = <<>>

\* validate_sql(sql); engine is what EXPLAIN QUERY PLAN answers, or would answer
GateValidate ==
    /\ pc = "gate"
    /\ \E engine \in {None} \cup DryRunErrors :
           LET v == ValidateSql(sql, engine)
           IN  /\ ret' = v
               /\ calls' = <<[op |-> "validate_sql", sql |-> sql,
                              dry_run |-> ReachesDryRun(sql),
                              explained |-> SqlClean(sql), engine |-> engine]>>
    /\ pc' = "gate_done"
    /\ UNCHANGED <<model, question, intent, generated_text, sql, failure, appVars>>

NextGate == GateValidate

SpecGate == InitGate /\ [][NextGate]_vars

\* C3: a text that contains a blacklisted keyword in any letter case is rejected by
\* validate_sql with the message that names a forbidden keyword the text contains,
\* without the dry run being reached and whatever the dry run would answer; the
\* text "SELECT * FROM users; DROP TABLE users;" is rejected naming DROP.
C3_KeywordAlwaysRejected ==
    pc = "gate_done" =>
        /\ (\E k \in 1..Len(dangerous_keywords) : OccursAnyCase(sql, dangerous_keywords[k])) =>
               /\ ~ret.is_valid
               /\ \E k \in 1..Len(dangerous_keywords) :
                      /\ OccursAnyCase(sql, dangerous_keywords[k])
                      /\ ret.error_msg = MsgForbidden(dangerous_keywords[k])
               /\ ~calls[1].dry_run
               /\ Len(calls) = 1
        /\ sql = DropExample => ret.error_msg = MsgForbidden(Chars("DROP"))

\* a lower-case keyword in a text whose dry run would raise nothing
C3_Witness ==
    /\ pc = "gate_done"
    /\ sql = Chars("SELECT * FROM users") \o Chars("drop")
    /\ calls[1].engine = None
    /\ ~ret.is_valid
    /\ ret.error_msg = MsgForbidden(Chars("DROP"))

(***************************************************************************)
(* app.py: the requests of the web layer, each on its own thread, and the  *)
(* process-wide converter                                                  *)
(***************************************************************************)

\* the requests that the process serves concurrently
NumRequests == 2

Requests == 1..NumRequests

\* the instance that the n-th run of the TextToSQL constructor returned
Instance(n) == <<"TextToSQL", n>>

\* the question fields of the /api/query requests
AppQuestions == {<<>>, Chars(" \n"), QueryAllUsers}

\* 问题不能为空
MsgEmptyQuestion == <<"u95EE", "u9898", "u4E0D", "u80FD", "u4E3A", "u7A7A">>
\* 系统初始化失败，请检查模型是否已加载
MsgInitFailed ==
    <<"u7CFB", "u7EDF", "u521D", "u59CB", "u5316", "u5931", "u8D25", "uFF0C", "u8BF7",
      "u68C0", "u67E5", "u6A21", "u578B", "u662F", "u5426", "u5DF2", "u52A0", "u8F7D">>

NewRequest(kind, q) ==
    [kind |-> kind, question |-> q, pc |-> "arrived", instance |-> None,
     conv |-> None, response |-> <<>>]

InitApp ==
    /\ model = "None"
    /\ pc = "app"
    /\ question = <<>>
    /\ intent = <<>>
    /\ generated_text = <<>>
    /\ sql = <<>>
    /\ calls = <<>>
    /\ failure = "none"
    /\ ret = <<>>
    /\ converter = None
    /\ constructions = 0
    /\ requests \in [Requests ->
                        {NewRequest("health", <<>>)}
                        \cup {NewRequest("query", q) : q \in AppQuestions}]

\* a mutant: the question is stripped and never tested for emptiness
QueryArrivesWithoutEmptyTest(r) ==
    /\ requests[r].pc = "arrived"
    /\ requests[r].kind = "query"
    /\ requests' = [requests EXCEPT ![r].pc = "check",
                                    ![r].question = Strip(requests[r].question)]
    /\ UNCHANGED <<convVars, converter, constructions>>

\* query up to its call of get_converter: the question is stripped and an empty
\* one is answered with 400
QueryArrives(r) ==
    /\ requests[r].pc = "arrived"
    /\ requests[r].kind = "query"
    /\ LET stripped == Strip(requests[r].question)
       IN  IF stripped = <<>>
           THEN requests' = [requests EXCEPT
                    ![r].pc = "done",
                    ![r].response = [status |-> 400, success |-> FALSE,
                                     error |-> MsgEmptyQuestion]]
           ELSE requests' = [requests EXCEPT ![r].pc = "check",
                                             ![r].question = stripped]
    /\ UNCHANGED <<convVars, converter, constructions>>

\* health calls get_converter at once
HealthArrives(r) ==
    /\ requests[r].pc = "arrived"
    /\ requests[r].kind = "health"
    /\ requests' = [requests EXCEPT ![r].pc = "check"]
    /\ UNCHANGED <<convVars, converter, constructions>>

\* get_converter: if converter is None
CheckConverter(r) ==
    /\ requests[r].pc = "check"
    /\ requests' = [requests EXCEPT
           ![r].pc = IF converter = None THEN "construct" ELSE "return"]
    /\ UNCHANGED <<convVars, converter, constructions>>

\* get_converter: TextToSQL() runs; it returns an instance, or it raises and
\* get_converter returns None
Construct(r) ==
    /\ requests[r].pc = "construct"
    /\ constructions' = constructions + 1
    /\ \E raised \in BOOLEAN :
           IF raised
           THEN requests' = [requests EXCEPT ![r].pc = "got", ![r].conv = None]
           ELSE requests' = [requests EXCEPT
                    ![r].pc = "assign", ![r].instance = Instance(constructions')]
    /\ UNCHANGED <<convVars, converter>>

\* get_converter: the instance is stored in the global
AssignConverter(r) ==
    /\ requests[r].pc = "assign"
    /\ converter' = requests[r].instance
    /\ requests' = [requests EXCEPT ![r].pc = "return"]
    /\ UNCHANGED <<convVars, constructions>>

\* get_converter: return converter
ReturnConverter(r) ==
    /\ requests[r].pc = "return"
    /\ requests' = [requests EXCEPT ![r].pc = "got", ![r].conv = converter]
    /\ UNCHANGED <<convVars, converter, constructions>>

\* query after get_converter: 500 without a converter, else conv.convert(question)
\* (whose steps are the actions of Spec; here only the call is recorded)
QueryResponds(r) ==
    /\ requests[r].pc = "got"
    /\ requests[r].kind = "query"
    /\ IF requests[r].conv = None
       THEN /\ requests' = [requests EXCEPT
                    ![r].pc = "done",
                    ![r].response = [status |-> 500, success |-> FALSE,
                                     error |-> MsgInitFailed]]
            /\ UNCHANGED calls
       ELSE /\ requests' = [requests EXCEPT
                    ![r].pc = "done",
                    ![r].response = [status |-> 200]]
            /\ calls' = Append(calls, [op |-> "convert", request |-> r,
                                       question |-> requests[r].question,
                                       converter |-> requests[r].conv])
    /\ UNCHANGED <<model, pc, question, intent, generated_text, sql, failure, ret,
                   converter, constructions>>

\* health after get_converter
HealthResponds(r) ==
    /\ requests[r].pc = "got"
    /\ requests[r].kind = "health"
    /\ requests' = [requests EXCEPT
           ![r].pc = "done",
           ![r].response = [status |-> "healthy",
                            model_loaded |-> requests[r].conv /= None]]
    /\ UNCHANGED <<convVars, converter, constructions>>

NextApp ==
    \E r \in Requests :
        \/ QueryArrives(r)
        \/ HealthArrives(r)
        \/ CheckConverter(r)
        \/ Construct(r)
        \/ AssignConverter(r)
        \/ ReturnConverter(r)
        \/ QueryResponds(r)
        \/ HealthResponds(r)

SpecApp == InitApp /\ [][NextApp]_vars

\* C5: whatever the interleaving of the requests that call get_converter while
\* converter is unset, no two of them both construct a TextToSQL.
C5_NoTwoConstruct ==
    \A r1, r2 \in Requests :
        (requests[r1].instance /= None /\ requests[r2].instance /= None) => r1 = r2

(***************************************************************************)
(* The stages of the pipeline, each called on its own with an argument of  *)
(* its own: _generate_sql_by_intent, _generate_intelligent_summary,        *)
(* _extract_sql_advanced, _post_process_sql and _analyze_question_intent   *)
(***************************************************************************)

\* 库存大于30
StockOver30 == KuCun \o DaYu \o Chars("30")
\* 价格高于5000
PriceOver5000 == JiaGe \o GaoYu \o Chars("5000")
\* 价格小于30
PriceUnder30 == JiaGe \o XiaoYu \o Chars("30")

StageWords ==
    {JiaGe \o GaoYu, PriceOver5000, JiaGe \o DiYu, PriceUnder30, StockOver30,
     Chars("5000"), XiangQing, TongJi, ShouJi, YongHu, KeHu, DingDan, ShangPin}

RECURSIVE StagePhrases(_)
StagePhrases(n) ==
    IF n = 0 THEN {<<>>}
    ELSE StagePhrases(n - 1) \cup {p \o w : p \in StagePhrases(n - 1), w \in StageWords}

\* the questions handed to _generate_sql_by_intent and _analyze_question_intent
StageQuestions == StagePhrases(MaxWords)

\* the questions handed to _generate_intelligent_summary
SummaryQuestions ==
    {<<>>, QueryAllUsers, CountPerCategory, TongJi, ZongShu, ShuLiang, PingJun,
     ZuiDuo, ZuiGao, ZuiShao, ZuiDi, PingJun \o JiaGe, Chars("AVG") \o PingJun}

\* the statements a model text is made of, and what ends each of them
StageStatements ==
    {Chars("SELECT * FROM users"),
     Chars("select id from Orders"),
     Chars("SELECT name FROM customers"),
     Chars("SELECT FROM products"),
     Chars("SELECT * FROM orders JOIN users")}
StageEndings == {Chars(";"), Chars(" "), Chars(";\n")}

\* the model texts handed to _extract_sql_advanced: one statement or two
StageTexts ==
    {s \o e : s \in StageStatements, e \in StageEndings}
    \cup {s1 \o e1 \o s2 \o e2 : s1, s2 \in StageStatements, e1, e2 \in StageEndings}

\* the statements handed to _post_process_sql: the tokens of a body joined by a
\* whitespace run, between a head and an ending
PostBodies ==
    {<<Chars("SELECT"), Chars("*"), Chars("FROM"), Chars("users")>>,
     <<Chars("select"), Chars("name"), Chars("from"), Chars("USERS")>>,
     <<Chars("SELECT"), Chars("*"), Chars("FROM"), Chars("orders")>>,
     <<Chars("SELECT"), Chars("*"), Chars("FROM"), Chars("users"), Chars("WHERE"),
       Chars("id=1")>>,
     <<Chars("SELECT"), Chars("*"), Chars("FROM"), Chars("users"), Chars("WHERE"),
       Chars("username='") \o ZhangSan \o Chars("'")>>,
     <<>>}
PostRuns == {Chars(" "), Chars("  "), Chars("\n\t")}
PostHeads == {<<>>, Chars(" ")}
PostEndings == {<<>>, Chars(";"), Chars(";;"), Chars(" ; "), Chars(";\n")}
PostSqls ==
    {h \o Join(b, r) \o e : h \in PostHeads, b \in PostBodies, r \in PostRuns,
                            e \in PostEndings}
PostQuestions == {ZhangSan \o YongHu, ZhangSan \o DingDan, QueryAllUsers}

\* a mutant: a list that gets the table of every keyword found, with no set
TableListsPerKeyword(q) ==
    LET keywords == <<<<YongHu, "users">>, <<HuiYuan, "users">>, <<KeHu, "users">>,
                      <<ShangPin, "products">>, <<ChanPin, "products">>,
                      <<JiaGe, "products">>, <<KuCun, "products">>,
                      <<DingDan, "orders">>, <<GouMai, "orders">>, <<JiaoYi, "orders">>>>
        RECURSIVE R(_)
        R(k) == IF k > Len(keywords) THEN <<>>
                ELSE (IF Contains(Lower(q), keywords[k][1]) THEN <<keywords[k][2]>>
                      ELSE <<>>) \o R(k + 1)
    IN  {R(1)}

\* list(tables_set): the elements of the set once each, in an order that the
\* hashing of the run decides
TableLists(q) ==
    LET tables_set == TablesSet(q)
        n == Cardinality(tables_set)
    IN  {l \in [1..n -> tables_set] : \A i, j \in 1..n : l[i] = l[j] => i = j}

\* the intent _analyze_question_intent returns when list(tables_set) is tables
AnalyzeQuestionIntentWith(q, tables) ==
    [AnalyzeQuestionIntent(q) EXCEPT
        !.tables = tables, !.join_required = Len(tables) > 1]

StageNames == {"by_intent", "summary", "extract", "post_process", "analyze"}

InitStages ==
    /\ model = "None"
    /\ pc \in StageNames
    /\ question \in (CASE pc \in {"by_intent", "analyze"} -> StageQuestions
                       [] pc = "summary" -> SummaryQuestions
                       [] pc = "post_process" -> PostQuestions
                       [] OTHER -> {<<>>})
    /\ intent = <<>>
    /\ generated_text \in (IF pc = "extract" THEN StageTexts ELSE {<<>>})
    /\ sql \in (CASE pc = "post_process" -> PostSqls
                  [] pc = "summary" -> {DefaultSql}
                  [] OTHER -> {<<>>})
    /\ calls = <<>>
    /\ failure = "none"
    /\ ret = <<>>
    /\ converter = None
    /\ constructions = 0
    /\ requests = <<>>

\* sql = self._generate_sql_by_intent(question, intent)
StageGenerateSqlByIntent ==
    /\ pc = "by_intent"
    /\ intent' = AnalyzeQuestionIntent(question)
    /\ sql' = GenerateSqlByIntent(question)
    /\ ret' = sql'
    /\ pc' = "by_intent_done"
    /\ UNCHANGED <<model, question, generated_text, calls, failure, appVars>>

\* summary = self._generate_intelligent_summary(question, sql, result), result
\* being what execute_query returned
StageSummary ==
    /\ pc = "summary"
    /\ \E engine \in {None} \cup ExecuteErrors :
       \E rows \in (IF engine = None THEN ResultSets ELSE {<<>>}) :
           LET result == ExecuteQuery(sql, engine, ColumnsOf(rows), rows)
           IN  /\ calls' = Append(calls, ExecuteCall(sql, result))
               /\ ret' = [result |-> result,
                          summary |-> GenerateIntelligentSummary(question, sql, result)]
    /\ pc' = "summary_done"
    /\ UNCHANGED <<model, question, intent, generated_text, sql, failure, appVars>>

\* sql = self._extract_sql_advanced(generated_text)
StageExtract ==
    /\ pc = "extract"
    /\ ret' = ExtractSqlAdvanced(generated_text)
    /\ pc' = "extract_done"
    /\ UNCHANGED <<model, question, intent, generated_text, sql, calls, failure, appVars>>

\* _post_process_sql(sql, question), and then again on what it returned: ret is
\* the sequence of the values returned
StagePostProcess ==
    /\ pc \in {"post_process", "post_process_again"}
    /\ ret' = Append(ret, PostProcessSql(IF ret = <<>> THEN sql ELSE ret[Len(ret)],
                                         question))
    /\ pc' = IF pc = "post_process" THEN "post_process_again" ELSE "post_process_done"
    /\ UNCHANGED <<model, question, intent, generated_text, sql, calls, failure, appVars>>

\* intent = self._analyze_question_intent(question)
StageAnalyze ==
    /\ pc = "analyze"
    /\ \E tables \in TableLists(question) :
           intent' = AnalyzeQuestionIntentWith(question, tables)
    /\ ret' = intent'
    /\ pc' = "analyze_done"
    /\ UNCHANGED <<model, question, generated_text, sql, calls, failure, appVars>>

NextStages ==
    \/ StageGenerateSqlByIntent
    \/ StageSummary
    \/ StageExtract
    \/ StagePostProcess
    \/ StageAnalyze

SpecStages == InitStages /\ [][NextStages]_vars


(***************************************************************************)
(* Properties of the stages                                                *)
(***************************************************************************)

\* a rule of _generate_sql_by_intent that stands before the two price rules fires
FiresBeforePriceRules(q) ==
    \/ Contains(q, SuoYou \o YongHu) \/ Contains(q, SuoYou \o ShangPin)
    \/ Contains(q, SuoYou \o DingDan)
    \/ (Contains(q, ZhangSan) /\ Contains(q, DingDan))
    \/ (Contains(q, LiSi) /\ Contains(q, DingDan))
    \/ ContainsAny(Lower(q), {ShouJi, DianNao, PingBan})

\* the digit runs that directly follow an occurrence in q of a phrase of phrases
RunsAfter(q, phrases) ==
    UNION {{PriceGroup(q, i + Len(p) - 1) :
               i \in {j \in 1..Len(q) : /\ StartsAt(q, p, j)
                                        /\ j + Len(p) <= Len(q)
                                        /\ q[j + Len(p)] \in Digits}} :
           p \in phrases}

GreaterPhrases == {JiaGe \o GaoYu, JiaGe \o DaYu}
LessPhrases == {JiaGe \o DiYu, JiaGe \o XiaoYu}

\* C11: when no earlier rule fires and the question has a "price greater than"
\* phrase directly followed by a digit run N, _generate_sql_by_intent returns
\* "SELECT * FROM products WHERE price > N;" with N that very run, wherever else
\* digits occur; and likewise with '<' for a "price less than" phrase.
C11_ThresholdIsRunAfterPhrase ==
    (pc = "by_intent_done" /\ ~FiresBeforePriceRules(question)) =>
        /\ RunsAfter(question, GreaterPhrases) /= {} =>
               \E N \in RunsAfter(question, GreaterPhrases) : ret = PriceSql(Chars(">"), N)
        /\ (~ContainsAny(question, GreaterPhrases)
            /\ RunsAfter(question, LessPhrases) /= {}) =>
               \E N \in RunsAfter(question, LessPhrases) : ret = PriceSql(Chars("<"), N)


(***************************************************************************)
(* Properties of the web layer                                             *)
(***************************************************************************)

\* C12: a request whose question is empty or only whitespace is answered with
\* success = false before the pipeline is entered: it never calls get_converter,
\* never holds a converter, never calls convert, and its answer is the 400 of
\* the empty question.
C12_EmptyQuestionStopsAtTheDoor ==
    \A r \in Requests :
        (requests[r].kind = "query" /\ Strip(requests[r].question) = <<>>) =>
            /\ requests[r].pc \in {"arrived", "done"}
            /\ requests[r].instance = None
            /\ requests[r].conv = None
            /\ \A i \in 1..Len(calls) : calls[i].request /= r
            /\ requests[r].pc = "done" =>
                   /\ requests[r].response.success = FALSE
                   /\ requests[r].response.status = 400
                   /\ requests[r].response.error = MsgEmptyQuestion

\* a whitespace-only question has been refused while another request went
\* through convert
C12_Witness ==
    \E r1, r2 \in Requests :
        /\ requests[r1].kind = "query"
        /\ requests[r1].question = Chars(" \n")
        /\ requests[r1].pc = "done"
        /\ requests[r1].response.status = 400
        /\ \E i \in 1..Len(calls) : calls[i].op = "convert" /\ calls[i].request = r2


\* C13: whatever the question, the summary of a successful result of no rows is
\* the fixed sentence 未找到匹配的数据。
C13_NoRowsNoDataSentence ==
    (pc = "summary_done" /\ ret.result.success /\ ret.result.row_count = 0) =>
        ret.summary = MsgNoData

\* a statistics, an average, a maximum or a minimum question has been summarised
\* over no rows
C13_Witness ==
    /\ pc = "summary_done"
    /\ ret.result.success
    /\ ret.result.row_count = 0
    /\ question \in {TongJi, PingJun, ZuiGao, ZuiDi}
    /\ ret.summary = MsgNoData


\* C14: from a model text of two SELECT statements of which only the second
\* passes _validate_sql_candidate, _extract_sql_advanced returns the second
\* statement closed by ';', and so nothing of the first.
C14_SecondStatementReturned ==
    pc = "extract_done" =>
        \A s1, s2 \in StageStatements : \A e1, e2 \in StageEndings :
            (/\ generated_text = s1 \o e1 \o s2 \o e2
             /\ ~ValidateSqlCandidate(s1)
             /\ ValidateSqlCandidate(s2)) => ret = s2 \o Chars(";")


\* a rule of _generate_sql_by_intent whose keyword is in q and that yields no
\* statement: a price phrase without captured digits, or a statistics keyword
\* without one of its table combinations
RuleEnteredInVain(q) ==
    \/ (ContainsAny(q, GreaterPhrases) /\ PriceMatchAt(q, GreaterClass) = 0)
    \/ (ContainsAny(q, LessPhrases) /\ PriceMatchAt(q, LessClass) = 0)
    \/ (/\ ContainsAny(q, {TongJi, ZongShu})
        /\ ~(Contains(q, YongHu) /\ Contains(q, DingDan))
        /\ ~(Contains(q, FenLei) /\ Contains(q, ShangPin))
        /\ ~Contains(q, DingDan))

\* C15: when a rule's keyword is present and the rule yields no statement, the
\* rules after it are still tried: a question that also has the "detail"
\* keyword does not end at the default statement.
C15_LaterRuleStillFires ==
    (/\ pc = "by_intent_done"
     /\ ~FiresBeforePriceRules(question)
     /\ RuleEnteredInVain(question)
     /\ ContainsAny(question, {XiangQing, XiangXi})) => ret /= DefaultSql


\* C16: for a question that names 张三 and a statement that lacks that literal,
\* refers to the users table and has no WHERE, _post_process_sql returns the
\* statement with " WHERE username = '张三'" right before its closing ';'.
C16_WhereClauseInjected ==
    (/\ pc \in {"post_process_again", "post_process_done"}
     /\ Contains(question, ZhangSan)
     /\ ~Contains(sql, ZhangSan)
     /\ Contains(Upper(sql), Chars("USERS"))
     /\ ~Contains(Upper(sql), Chars("WHERE"))) =>
        EndsWith(ret[1], Chars(" WHERE username = '") \o ZhangSan \o Chars("';"))


\* C17: for a fixed question, _post_process_sql applied to what it returned
\* returns that same text: applying it twice equals applying it once.
C17_PostProcessIdempotent ==
    pc = "post_process_done" => ret[2] = ret[1]

\* it has been applied twice to a statement that the first application changed,
\* for a question that names 张三 and a statement on the users table without WHERE
C17_Witness ==
    /\ pc = "post_process_done"
    /\ ret[1] /= sql
    /\ Contains(question, ZhangSan)
    /\ Contains(Upper(sql), Chars("USERS"))
    /\ ~Contains(Upper(sql), Chars("WHERE"))
    /\ Contains(sql, Chars(";;"))


\* C18: the tables of the intent that _analyze_question_intent returns are names
\* of the catalog users, products, orders, order_details, none of them twice,
\* and join_required is true exactly when more than one table is listed.
C18_TablesOfCatalogOnceEach ==
    pc = "analyze_done" =>
        /\ \A i \in 1..Len(ret.tables) :
               ret.tables[i] \in {"users", "products", "orders", "order_details"}
        /\ \A i, j \in 1..Len(ret.tables) : ret.tables[i] = ret.tables[j] => i = j
        /\ ret.join_required <=> Len(ret.tables) > 1

\* a question with two keywords of the users table has been analysed
C18_Witness ==
    /\ pc = "analyze_done"
    /\ Contains(question, YongHu)
    /\ Contains(question, KeHu)
    /\ ret.tables = <<"users">>
    /\ ~ret.join_required


=============================================================================
